---- MODULE Spec2Model ----
(***************************************************************************)
(* nm-configurator (nmc): the apply path (parse_hosts, identify_host,      *)
(* detect_local_interfaces, copy_connection_files, store_connection_file,  *)
(* disable_wired_connections) and the generate path (generate,             *)
(* generate_config, validate_interfaces, populate_connection_ids,          *)
(* validate_connection_ids, store_network_config, store_network_mapping),  *)
(* as state machines.                                                      *)
(*                                                                         *)
(* A string is a sequence of one-character strings, so that the substring  *)
(* test and the textual replacement of the code are computed, not assumed. *)
(* An Option is a sequence of length 0 (None) or 1 (Some).                 *)
(***************************************************************************)
EXTENDS Integers, Sequences, FiniteSets, TLC

VARIABLES
    pc,                 \* position of the running command
    hosts_file,         \* host_config.yaml as written on disk (Vec<Host>)
    hosts,              \* result of parse_hosts
    network_interfaces, \* NetworkInterface::show()
    host,               \* Option<Host>: result of identify_host
    local_interfaces,   \* HashMap<String, String> built by detect_local_interfaces
    snapshot,           \* local_interfaces.clone() iterated by the second pass
    pending,            \* keys of the clone the second pass has not visited yet
    idx,                \* index of the loop in progress
    source,             \* files under <source_dir>/<hostname>/, by logical name
    dest,               \* files of the destination directory, by file name
    umask,              \* file mode creation mask of the process
    hostname_file,      \* Option: content of /etc/hostname
    no_auto_default,    \* whether disable_wired_connections wrote its file
    error,              \* Option: the error the command returned
    runs,               \* calls of copy_connection_files so far
    first_dest,         \* destination directory as the first call left it
    first_local_interfaces, \* Option: RenameMap an earlier call returned
    interfaces,         \* generate: Vec<Interface> being attributed
    config,             \* generate: NetworkConfig, one parsed view per file
    config_dir,         \* generate: the entries of the config directory
    entry,              \* generate: index of the entry the loop is at
    require_mac_addresses, \* generate: the mode generate_config is called in
    output_dir,         \* generate: files of the output directory, by host
    mapping_file        \* generate: host_config.yaml of the output directory

vars == <<pc, hosts_file, hosts, network_interfaces, host, local_interfaces,
          snapshot, pending, idx, source, dest, umask, hostname_file,
          no_auto_default, error, runs, first_dest, first_local_interfaces,
          interfaces, config, config_dir, entry, require_mac_addresses,
          output_dir, mapping_file>>

----------------------------------------------------------------------------
(* Bounds of the model *)

MaxHosts == 2
MaxNics == 2
MaxIfaces == 3
MaxRuns == 2
MaxProfiles == 2

----------------------------------------------------------------------------
(* Options and strings *)

None == <<>>
Some(x) == <<x>>
IsSome(o) == o # None
Unwrap(o) == o[1]

Min(S) == CHOOSE x \in S : \A y \in S : x <= y
Max(S) == CHOOSE x \in S : \A y \in S : x >= y

\* char::to_lowercase on the letters the model uses
LowerChar(c) ==
    CASE c = "A" -> "a"
      [] c = "B" -> "b"
      [] OTHER -> c

\* str::to_lowercase
to_lowercase(s) == [i \in 1..Len(s) |-> LowerChar(s[i])]

\* The text starts with the pattern.
StartsWith(s, pat) ==
    /\ Len(pat) <= Len(s)
    /\ SubSeq(s, 1, Len(pat)) = pat

\* str::contains with a string pattern
Contains(s, pat) ==
    \E i \in 1..(Len(s) - Len(pat) + 1) : SubSeq(s, i, i + Len(pat) - 1) = pat

RECURSIVE ReplaceEmpty(_, _)
ReplaceEmpty(s, to) ==
    IF s = <<>> THEN to
    ELSE to \o <<Head(s)>> \o ReplaceEmpty(Tail(s), to)

\* str::replace: every non-overlapping match, left to right
RECURSIVE ReplaceFrom(_, _, _)
ReplaceFrom(s, from, to) ==
    IF Len(s) < Len(from) THEN s
    ELSE IF StartsWith(s, from)
         THEN to \o ReplaceFrom(SubSeq(s, Len(from) + 1, Len(s)), from, to)
         ELSE <<Head(s)>> \o ReplaceFrom(Tail(s), from, to)

Replace(s, from, to) ==
    IF from = <<>> THEN ReplaceEmpty(s, to) ELSE ReplaceFrom(s, from, to)

\* HashMap::insert
Insert(m, k, v) == [x \in (DOMAIN m) \cup {k} |-> IF x = k THEN v ELSE m[x]]

EmptyMap == [x \in {} |-> <<>>]

----------------------------------------------------------------------------
(* Values of the model *)

CONNECTION_FILE_EXT == "nmconnection"
Ethernet == "ethernet"

\* Logical names of preconfigured interfaces: eth1, eth10, eth10.5, bond0
E1 == <<"e", "1">>
E10 == <<"e", "1", "0">>
V10 == <<"e", "1", "0", ".", "5">>
B0 == <<"b", "0">>

\* Kernel names of local NICs that no preconfigured interface uses
NicN == <<"n">>
NicP == <<"p">>
NicQ == <<"q">>

\* MAC addresses; M1U is M1 in upper case
M1 == <<"a", "1">>
M1U == <<"A", "1">>
M2 == <<"b", "2">>

\* Permission bits of a file mode, and masks
Mode600 == {"ur", "uw"}
Mode644 == {"ur", "uw", "gr", "or"}
Umask022 == {"gw", "ow"}
Umask077 == {"gr", "gw", "gx", "or", "ow", "ox"}

SourceDir == <<"config">>
DestinationDir == <<"system-connections">>

Interface(name, mac, type) ==
    [logical_name |-> name, connection_ids |-> <<>>,
     mac_address |-> mac, interface_type |-> type]

NetworkInterface(name, mac) == [name |-> name, mac_addr |-> mac]

Host(hostname, ifaces) == [hostname |-> hostname, interfaces |-> ifaces]

----------------------------------------------------------------------------
(* apply_conf.rs: pure functions *)

LowerMac(i) ==
    IF i.mac_address = None THEN i
    ELSE [i EXCEPT !.mac_address = Some(to_lowercase(Unwrap(i.mac_address)))]

\* parse_hosts: the hosts of the mapping file with every MAC in lower case
parse_hosts(file) ==
    [h \in 1..Len(file) |->
        [file[h] EXCEPT
            !.interfaces = [i \in 1..Len(file[h].interfaces) |->
                                LowerMac(file[h].interfaces[i])]]]

\* HostMatches without the filter on the NICs that have a MAC
HostMatchesUnfiltered(h, nics) ==
    \E i \in 1..Len(h.interfaces) :
        \E k \in 1..Len(nics) : nics[k].mac_addr = h.interfaces[i].mac_address

\* The closure of identify_host: some interface of h has the MAC of a local
\* NIC that has one.
HostMatches(h, nics) ==
    \E i \in 1..Len(h.interfaces) :
        \E k \in 1..Len(nics) :
            /\ nics[k].mac_addr # None
            /\ nics[k].mac_addr = h.interfaces[i].mac_address

\* identify_host returning the last host that matches
identify_host_last(hs, nics) ==
    LET matching == {h \in 1..Len(hs) : HostMatches(hs[h], nics)}
    IN  IF matching = {} THEN None ELSE Some(hs[Max(matching)])

\* identify_host that falls back to the first host when none matches
identify_host_or_first(hs, nics) ==
    LET matching == {h \in 1..Len(hs) : HostMatches(hs[h], nics)}
    IN  IF matching = {} THEN Some(hs[1]) ELSE Some(hs[Min(matching)])

\* identify_host: Iterator::find, the first host that matches
identify_host(hs, nics) ==
    LET matching == {h \in 1..Len(hs) : HostMatches(hs[h], nics)}
    IN  IF matching = {} THEN None ELSE Some(hs[Min(matching)])

LogicalNames(h) == {h.interfaces[i].logical_name : i \in 1..Len(h.interfaces)}

\* detected_interface taking the last such NIC
detected_interface_last(h, nics, interface) ==
    LET found == {k \in 1..Len(nics) :
                     /\ nics[k].mac_addr = interface.mac_address
                     /\ nics[k].name \notin LogicalNames(h)}
    IN  IF found = {} THEN None ELSE Some(nics[Max(found)])

\* The first local NIC with the MAC of the interface whose name is not the
\* logical name of an interface of the host.
detected_interface(h, nics, interface) ==
    LET found == {k \in 1..Len(nics) :
                     /\ nics[k].mac_addr = interface.mac_address
                     /\ nics[k].name \notin LogicalNames(h)}
    IN  IF found = {} THEN None ELSE Some(nics[Min(found)])

\* First pass of detect_local_interfaces over the first n interfaces.
RECURSIVE DirectRenames(_, _, _)
DirectRenames(h, nics, n) ==
    IF n = 0 THEN EmptyMap
    ELSE LET m == DirectRenames(h, nics, n - 1)
             interface == h.interfaces[n]
             detected == detected_interface(h, nics, interface)
         IN  IF interface.interface_type = Ethernet /\ detected # None
             THEN Insert(m, interface.logical_name, Unwrap(detected).name)
             ELSE m

\* PropagateEntry giving the dependent interface the new name of its parent
RECURSIVE PropagateEntryWhole(_, _, _, _, _)
PropagateEntryWhole(h, m, key, value, n) ==
    IF n = 0 THEN m
    ELSE LET prev == PropagateEntryWhole(h, m, key, value, n - 1)
             name == h.interfaces[n].logical_name
         IN  IF Contains(name, key) /\ name # key
             THEN Insert(prev, name, value)
             ELSE prev

\* Second pass of detect_local_interfaces for one entry (key, value) of the
\* clone, over the first n interfaces.
RECURSIVE PropagateEntry(_, _, _, _, _)
PropagateEntry(h, m, key, value, n) ==
    IF n = 0 THEN m
    ELSE LET prev == PropagateEntry(h, m, key, value, n - 1)
             name == h.interfaces[n].logical_name
         IN  IF Contains(name, key) /\ name # key
             THEN Insert(prev, name, Replace(name, key, value))
             ELSE prev

\* cloned_entry_value that reads the map the second pass is writing
live_entry_value(clone, map, key) == map[key]

\* Line 115: the second pass takes its (key, value) pairs from the clone of
\* the map, not from the map it inserts into
cloned_entry_value(clone, map, key) == clone[key]

\* Position of the last dot of a name, 0 without one
LastDot(s) == IF \E i \in 1..Len(s) : s[i] = "." THEN Max({i \in 1..Len(s) : s[i] = "."}) ELSE 0

\* keyfile_path built on Path::with_extension, which replaces what follows
\* the last dot of the file name
keyfile_path_with_extension(dir, filename) ==
    IF dir = <<>> \/ filename = <<>> THEN None
    ELSE IF LastDot(filename) > 1
         THEN Some(SubSeq(filename, 1, LastDot(filename)) \o <<CONNECTION_FILE_EXT>>)
         ELSE Some(filename \o <<".", CONNECTION_FILE_EXT>>)

\* keyfile_path: the file of the directory, the extension appended to the
\* whole file name
keyfile_path(dir, filename) ==
    IF dir = <<>> \/ filename = <<>> THEN None
    ELSE Some(filename \o <<".", CONNECTION_FILE_EXT>>)

\* OpenOptions create + truncate + write + mode(0o600), then write_all: the
\* mode is given to a file that is created, an existing file keeps its own.
OpenedMode(d, path, um) ==
    IF path \in DOMAIN d THEN d[path].mode ELSE Mode600 \ um

\* WrittenContents of a file opened to append
WrittenContentsAppended(d, path, contents) ==
    IF path \in DOMAIN d THEN d[path].contents \o contents ELSE contents

\* truncate(true) and write_all: what the file held is dropped
WrittenContents(d, path, contents) == contents

\* store_connection_file
store_connection_file(d, filename, contents, um) ==
    LET path == keyfile_path(DestinationDir, filename)
    IN  IF path = None
        THEN [ok |-> FALSE, dest |-> d,
              err |-> <<"Storing file", "Determining destination keyfile path">>]
        ELSE [ok |-> TRUE,
              dest |-> Insert(d, Unwrap(path),
                              [contents |-> WrittenContents(d, Unwrap(path), contents),
                               mode |-> OpenedMode(d, Unwrap(path), um)]),
              err |-> <<>>]

\* The body of the loop of copy_connection_files for one interface: the
\* name and the contents it stores.
CopiedName(m, interface) ==
    IF interface.logical_name \in DOMAIN m
    THEN m[interface.logical_name] ELSE interface.logical_name

CopiedContents(m, interface, contents) ==
    IF interface.logical_name \in DOMAIN m
    THEN Replace(contents, interface.logical_name, m[interface.logical_name])
    ELSE contents

----------------------------------------------------------------------------
(* apply: one action per step of apply_conf.rs *)

genVars == <<interfaces, config, config_dir, entry, require_mac_addresses,
            output_dir, mapping_file>>
applyVars == <<hosts_file, hosts, network_interfaces, host, local_interfaces,
              snapshot, pending, source, dest, umask, hostname_file,
              no_auto_default, first_dest, first_local_interfaces>>
inputVars == <<hosts_file, network_interfaces, source, umask>>

\* apply, line 31: parse_hosts
ParseHosts ==
    /\ pc = "parse"
    /\ hosts' = parse_hosts(hosts_file)
    /\ pc' = "identify"
    /\ UNCHANGED <<host, local_interfaces, snapshot, pending, idx, dest,
                   hostname_file, no_auto_default, error, runs, first_dest,
                   first_local_interfaces>>
    /\ UNCHANGED inputVars /\ UNCHANGED genVars

\* apply, lines 37-38: identify_host, or the error that ends apply
IdentifyHost ==
    /\ pc = "identify"
    /\ host' = identify_host(hosts, network_interfaces)
    /\ IF host' = None
       THEN /\ pc' = "failed"
            /\ error' = Some(<<"None of the preconfigured hosts match local NICs">>)
       ELSE /\ pc' = "hostname"
            /\ error' = error
    /\ UNCHANGED <<hosts, local_interfaces, snapshot, pending, idx, dest,
                   hostname_file, no_auto_default, runs, first_dest,
                   first_local_interfaces>>
    /\ UNCHANGED inputVars /\ UNCHANGED genVars

\* apply, line 41: fs::write(HOSTNAME_FILE, &host.hostname)
SetHostname ==
    /\ pc = "hostname"
    /\ hostname_file' = Some(Unwrap(host).hostname)
    /\ pc' = "detect"
    /\ UNCHANGED <<hosts, host, local_interfaces, snapshot, pending, idx, dest,
                   no_auto_default, error, runs, first_dest,
                   first_local_interfaces>>
    /\ UNCHANGED inputVars /\ UNCHANGED genVars

\* detect_local_interfaces, first pass (lines 96-112) and the clone of line
\* 115; with no entry the second pass has nothing to visit and the function
\* returns.
DetectDirect ==
    /\ pc = "detect"
    /\ local_interfaces' = DirectRenames(Unwrap(host), network_interfaces,
                                         Len(Unwrap(host).interfaces))
    /\ snapshot' = local_interfaces'
    /\ pending' = DOMAIN local_interfaces'
    /\ pc' = IF pending' = {} THEN "copy" ELSE "propagate"
    /\ idx' = 1
    /\ UNCHANGED <<hosts, host, dest, hostname_file, no_auto_default, error,
                   runs, first_dest,
                   first_local_interfaces>>
    /\ UNCHANGED inputVars /\ UNCHANGED genVars

\* detect_local_interfaces, second pass (lines 115-125): one entry of the
\* clone; a HashMap iterates its entries in an order the program does not
\* choose, so the entry is any that was not visited yet.
DetectPropagate ==
    /\ pc = "propagate"
    /\ \E key \in pending :
           /\ local_interfaces' =
                  PropagateEntry(Unwrap(host), local_interfaces, key,
                                 cloned_entry_value(snapshot, local_interfaces, key),
                                 Len(Unwrap(host).interfaces))
           /\ pending' = pending \ {key}
    /\ pc' = IF pending' = {} THEN "copy" ELSE "propagate"
    /\ UNCHANGED <<hosts, host, snapshot, idx, dest, hostname_file,
                   no_auto_default, error, runs, first_dest,
                   first_local_interfaces>>
    /\ UNCHANGED inputVars /\ UNCHANGED genVars

\* detect_local_interfaces called again with the same host and the same
\* local NICs (lines 92-96): the map starts empty again; the map the earlier
\* call returned is kept for comparison.
Redetect ==
    /\ pc = "copy"
    /\ first_local_interfaces = None
    /\ first_local_interfaces' = Some(local_interfaces)
    /\ local_interfaces' = EmptyMap
    /\ snapshot' = EmptyMap
    /\ pending' = {}
    /\ pc' = "detect"
    /\ UNCHANGED <<hosts, host, idx, dest, hostname_file, no_auto_default,
                   error, runs, first_dest>>
    /\ UNCHANGED inputVars /\ UNCHANGED genVars

\* copy_connection_files, one turn of the loop of lines 184-209: read the
\* source file of the interface, rename, store.
CopyConnectionFile ==
    /\ pc = "copy"
    /\ LET h == Unwrap(host)
           interface == h.interfaces[idx]
           filepath == keyfile_path(SourceDir \o h.hostname, interface.logical_name)
       IN  IF filepath = None
           THEN /\ pc' = "failed"
                /\ error' = Some(<<"Copying connection files",
                                   "Determining source keyfile path">>)
                /\ UNCHANGED <<dest, idx>>
           ELSE IF interface.logical_name \notin DOMAIN source
           THEN /\ pc' = "failed"
                /\ error' = Some(<<"Copying connection files", "Reading file">>)
                /\ UNCHANGED <<dest, idx>>
           ELSE LET stored == store_connection_file(
                                  dest,
                                  CopiedName(local_interfaces, interface),
                                  CopiedContents(local_interfaces, interface,
                                                 source[interface.logical_name]),
                                  umask)
                IN  IF stored.ok
                    THEN /\ dest' = stored.dest
                         /\ idx' = idx + 1
                         /\ pc' = IF idx = Len(h.interfaces) THEN "disable" ELSE "copy"
                         /\ error' = error
                    ELSE /\ pc' = "failed"
                         /\ error' = Some(<<"Copying connection files">> \o stored.err)
                         /\ UNCHANGED <<dest, idx>>
    /\ UNCHANGED <<hosts, host, local_interfaces, snapshot, pending,
                   hostname_file, no_auto_default, runs, first_dest,
                   first_local_interfaces>>
    /\ UNCHANGED inputVars /\ UNCHANGED genVars

\* apply, lines 54-55: disable_wired_connections
DisableWiredConnections ==
    /\ pc = "disable"
    /\ no_auto_default' = TRUE
    /\ pc' = "done"
    /\ UNCHANGED <<hosts, host, local_interfaces, snapshot, pending, idx, dest,
                   hostname_file, error, runs, first_dest,
                   first_local_interfaces>>
    /\ UNCHANGED inputVars /\ UNCHANGED genVars

\* A call of copy_connection_files ended, with Ok or with an error.
Deployed ==
    \/ pc = "done"
    \/ pc = "failed" /\ error # None /\ Head(Unwrap(error)) = "Copying connection files"

\* copy_connection_files called again with the same host, map, source
\* directory and destination directory.
Redeploy ==
    /\ Deployed
    /\ runs < MaxRuns
    /\ runs' = runs + 1
    /\ first_dest' = IF runs = 1 THEN Some(dest) ELSE first_dest
    /\ idx' = 1
    /\ pc' = "copy"
    /\ error' = None
    /\ UNCHANGED <<hosts, host, local_interfaces, snapshot, pending, dest,
                   hostname_file, no_auto_default, first_local_interfaces>>
    /\ UNCHANGED inputVars /\ UNCHANGED genVars

----------------------------------------------------------------------------
(* generate_conf.rs: populate_connection_ids *)

\* What populate_connection_ids reads of a file of the NetworkConfig: its
\* name, and the values Ini::get returns for [connection] type,
\* interface-name and id and for [ethernet] mac-address.
Profile(filename, type, name, mac, id) ==
    [filename |-> filename, connection_type |-> type, interface_name |-> name,
     mac_address |-> mac, id |-> id]

\* is_loopback that skips no profile
is_loopback_never(p) == FALSE

\* Line 119: the profile is a loopback connection
is_loopback(p) == p.connection_type = Some(<<"loopback">>)

\* no_identifier that reports no profile
no_identifier_never(p) == FALSE

\* Line 125: the profile has neither a MAC address nor an interface name
no_identifier(p) == p.mac_address = None /\ p.interface_name = None

\* The closure of lines 136-146: the interface is the one of the profile
matches(x, p) ==
    IF p.mac_address # None /\ x.mac_address # None
    THEN to_lowercase(Unwrap(x.mac_address)) = to_lowercase(Unwrap(p.mac_address))
    ELSE IF p.interface_name # None
         THEN x.logical_name = Unwrap(p.interface_name)
         ELSE FALSE

\* find_interface that takes the first interface of the list when no
\* interface is the one of the profile
find_interface_or_first(ifs, p) ==
    LET found == {i \in 1..Len(ifs) : matches(ifs[i], p)}
    IN  IF found = {} THEN 1 ELSE Min(found)

\* iter_mut().find(..): the index of the first interface of the profile, 0
\* for None
find_interface(ifs, p) ==
    LET found == {i \in 1..Len(ifs) : matches(ifs[i], p)}
    IN  IF found = {} THEN 0 ELSE Min(found)

\* One turn of the loop of populate_connection_ids (lines 115-155), and the
\* Ok(()) of line 157 after the last.
PopulateConnectionIds ==
    /\ pc = "populate"
    /\ LET p == config[idx]
           found == find_interface(interfaces, p)
       IN  IF is_loopback(p)
           THEN /\ interfaces' = interfaces
                /\ error' = error
                /\ idx' = idx + 1
                /\ pc' = IF idx = Len(config) THEN "validate_ids" ELSE "populate"
           ELSE IF no_identifier(p)
           THEN /\ pc' = "failed"
                /\ error' = Some(<<"No identifier found in connection file", p.filename>>)
                /\ UNCHANGED <<interfaces, idx>>
           ELSE IF p.id = None
           THEN /\ pc' = "failed"
                /\ error' = Some(<<"No connection id found in connection file", p.filename>>)
                /\ UNCHANGED <<interfaces, idx>>
           ELSE IF found = 0
           THEN /\ pc' = "failed"
                /\ error' = Some(<<"No matching interface found for connection file",
                                   p.filename>>)
                /\ UNCHANGED <<interfaces, idx>>
           ELSE /\ interfaces' =
                       [interfaces EXCEPT ![found].connection_ids = Append(@, Unwrap(p.id))]
                /\ error' = error
                /\ idx' = idx + 1
                /\ pc' = IF idx = Len(config) THEN "validate_ids" ELSE "populate"
    /\ UNCHANGED <<hosts, host, local_interfaces, snapshot, pending, dest,
                   hostname_file, no_auto_default, runs, first_dest,
                   first_local_interfaces, config>>
    /\ UNCHANGED <<config_dir, entry, require_mac_addresses, output_dir,
                   mapping_file>>
    /\ UNCHANGED inputVars

----------------------------------------------------------------------------
(* generate_conf.rs: generate and generate_config *)

\* Names the crate root gives to the unified configuration; their values
\* are not read by the code modelled here.
ALL_HOSTS_FILE == <<"ALL_HOSTS_FILE">>
ALL_HOSTS_DIR == <<"ALL_HOSTS_DIR">>

Loopback == "loopback"

\* extract_hostname: the file name without a yml or yaml extension
extract_hostname(path) ==
    IF path = <<>> THEN None
    ELSE IF /\ LastDot(path) > 1
            /\ SubSeq(path, LastDot(path) + 1, Len(path)) \in {<<"yml">>, <<"yaml">>}
         THEN Some(SubSeq(path, 1, LastDot(path) - 1))
         ELSE Some(path)

\* [String]::join
RECURSIVE join(_, _)
join(names, sep) ==
    IF names = <<>> THEN <<>>
    ELSE IF Len(names) = 1 THEN names[1]
    ELSE names[1] \o sep \o join(Tail(names), sep)

\* .map(|i| i.logical_name.to_owned()).collect()
logical_names(ifs) == [k \in 1..Len(ifs) |-> ifs[k].logical_name]

\* extract_interfaces: the interfaces of the network state but the
\* loopback ones, without connection ids
extract_interfaces(network_state) ==
    LET kept == SelectSeq(network_state, LAMBDA i : i.interface_type # Loopback)
    IN  [k \in 1..Len(kept) |->
            Interface(kept[k].logical_name, kept[k].mac_address,
                      kept[k].interface_type)]

\* ethernet_interfaces that keeps the interfaces of every type
ethernet_interfaces_of_any_type(ifs) == ifs

\* Lines 178-181: the Ethernet interfaces of the list
ethernet_interfaces(ifs) ==
    SelectSeq(ifs, LAMBDA i : i.interface_type = Ethernet)

\* validate_interfaces that asks for an Ethernet interface in strict mode
\* only
validate_interfaces_strict_only(ifs, require) ==
    LET without_mac == SelectSeq(ethernet_interfaces(ifs),
                                 LAMBDA i : i.mac_address = None)
    IN  IF ~ require THEN None
        ELSE IF ethernet_interfaces(ifs) = <<>>
        THEN Some(<<"No Ethernet interfaces were provided">>)
        ELSE IF without_mac # <<>>
        THEN Some(<<"Detected Ethernet interfaces without a MAC address",
                    join(logical_names(without_mac), <<",", " ">>)>>)
        ELSE None

\* validate_interfaces: the error it returns, None for Ok(())
validate_interfaces(ifs, require) ==
    LET without_mac == SelectSeq(ethernet_interfaces(ifs),
                                 LAMBDA i : i.mac_address = None)
    IN  IF ethernet_interfaces(ifs) = <<>>
        THEN Some(<<"No Ethernet interfaces were provided">>)
        ELSE IF ~ require THEN None
        ELSE IF without_mac # <<>>
        THEN Some(<<"Detected Ethernet interfaces without a MAC address",
                    join(logical_names(without_mac), <<",", " ">>)>>)
        ELSE None

\* empty_connection_ids that looks at the Ethernet interfaces only
empty_connection_ids_of_ethernet(ifs) ==
    logical_names(SelectSeq(ifs, LAMBDA i : /\ i.connection_ids = <<>>
                                            /\ i.interface_type = Ethernet))

\* Lines 95-99: the names of the interfaces without a connection id
empty_connection_ids(ifs) ==
    logical_names(SelectSeq(ifs, LAMBDA i : i.connection_ids = <<>>))

\* validate_connection_ids: the error it returns, None for Ok(())
validate_connection_ids(ifs) ==
    IF empty_connection_ids(ifs) # <<>>
    THEN Some(<<"Detected interfaces without connection files",
                join(empty_connection_ids(ifs), <<",", " ">>)>>)
    ELSE None

\* store_network_config: fs::write of every file of the config under
\* <output_dir>/<hostname>, over the file of this name if there is one
RECURSIVE store_network_config(_, _, _)
store_network_config(out, hostname, cfg) ==
    IF cfg = <<>>
    THEN IF hostname \in DOMAIN out THEN out ELSE Insert(out, hostname, EmptyMap)
    ELSE LET before == store_network_config(out, hostname,
                                            SubSeq(cfg, 1, Len(cfg) - 1))
             file == cfg[Len(cfg)]
         IN  Insert(before, hostname,
                    Insert(before[hostname], file.filename, file))

\* store_network_mapping on a file opened with truncate
store_network_mapping_truncated(document, hostname, ifs) ==
    <<Host(hostname, ifs)>>

\* store_network_mapping: the document with the one-host sequence written
\* at its end (create + append)
store_network_mapping(document, hostname, ifs) ==
    document \o <<Host(hostname, ifs)>>

\* The entry of the config directory the loop of generate is at
CurrentEntry == config_dir[entry]

\* The directory of the output directory the config of the entry goes to
OutputHost ==
    IF require_mac_addresses THEN Unwrap(extract_hostname(CurrentEntry.file))
    ELSE ALL_HOSTS_DIR

\* generate, lines 19-32: an empty directory is an error; a directory whose
\* only entry is the readable unified file is generated without MAC
\* requirement; every other directory is generated entry by entry.
Generate ==
    /\ pc = "generate"
    /\ IF Len(config_dir) = 0
       THEN /\ pc' = "failed"
            /\ error' = Some(<<"Empty config directory">>)
            /\ UNCHANGED require_mac_addresses
       ELSE /\ require_mac_addresses' =
                   ~ (/\ Len(config_dir) = 1
                      /\ config_dir[1].file = ALL_HOSTS_FILE
                      /\ ~ config_dir[1].is_dir)
            /\ pc' = "entry"
            /\ error' = error
    /\ entry' = 1
    /\ UNCHANGED <<interfaces, config, config_dir, output_dir, mapping_file,
                   idx, runs>>
    /\ UNCHANGED applyVars

\* generate, lines 34-48, and generate_config, lines 77-80: a directory is
\* passed over; the interfaces of the network state are extracted and
\* validated.
ValidateInterfaces ==
    /\ pc = "entry"
    /\ IF CurrentEntry.is_dir
       THEN /\ entry' = entry + 1
            /\ pc' = IF entry = Len(config_dir) THEN "generated" ELSE "entry"
            /\ UNCHANGED <<interfaces, error>>
       ELSE IF require_mac_addresses /\ extract_hostname(CurrentEntry.file) = None
       THEN /\ pc' = "failed"
            /\ error' = Some(<<"Invalid file path">>)
            /\ UNCHANGED <<interfaces, entry>>
       ELSE /\ interfaces' = extract_interfaces(CurrentEntry.network_state)
            /\ error' = validate_interfaces(interfaces', require_mac_addresses)
            /\ pc' = IF error' # None THEN "failed" ELSE "gen_conf"
            /\ entry' = entry
    /\ UNCHANGED <<config, config_dir, require_mac_addresses, output_dir,
                   mapping_file, idx, runs>>
    /\ UNCHANGED applyVars

\* generate_config, lines 82-86: the NetworkManager files nmstate generates
\* for the network state
GenConf ==
    /\ pc = "gen_conf"
    /\ config' = CurrentEntry.gen_conf
    /\ idx' = 1
    /\ pc' = IF config' = <<>> THEN "validate_ids" ELSE "populate"
    /\ UNCHANGED <<interfaces, config_dir, entry, require_mac_addresses,
                   output_dir, mapping_file, error, runs>>
    /\ UNCHANGED applyVars

\* generate_config, line 89: validate_connection_ids
ValidateConnectionIds ==
    /\ pc = "validate_ids"
    /\ error' = validate_connection_ids(interfaces)
    /\ pc' = IF error' # None THEN "failed" ELSE "store_config"
    /\ UNCHANGED <<interfaces, config, config_dir, entry, require_mac_addresses,
                   output_dir, mapping_file, idx, runs>>
    /\ UNCHANGED applyVars

\* generate, lines 29 and 54: store_network_config; the unified config ends
\* generate here.
StoreNetworkConfig ==
    /\ pc = "store_config"
    /\ output_dir' = store_network_config(output_dir, OutputHost, config)
    /\ pc' = IF require_mac_addresses THEN "store_mapping" ELSE "generated"
    /\ UNCHANGED <<interfaces, config, config_dir, entry, require_mac_addresses,
                   mapping_file, error, idx, runs>>
    /\ UNCHANGED applyVars

\* generate, lines 55-57: store_network_mapping, then the next entry
StoreNetworkMapping ==
    /\ pc = "store_mapping"
    /\ mapping_file' = store_network_mapping(mapping_file, OutputHost, interfaces)
    /\ interfaces' = <<>>
    /\ config' = <<>>
    /\ entry' = entry + 1
    /\ pc' = IF entry = Len(config_dir) THEN "generated" ELSE "entry"
    /\ UNCHANGED <<config_dir, require_mac_addresses, output_dir, error, idx,
                   runs>>
    /\ UNCHANGED applyVars

\* generate called again on the same config directory and output directory
Regenerate ==
    /\ pc \in {"generated", "failed"}
    /\ runs < MaxRuns
    /\ runs' = runs + 1
    /\ pc' = "generate"
    /\ error' = None
    /\ interfaces' = <<>>
    /\ config' = <<>>
    /\ entry' = 1
    /\ UNCHANGED <<config_dir, require_mac_addresses, output_dir, mapping_file,
                   idx>>
    /\ UNCHANGED applyVars

----------------------------------------------------------------------------
(* Inputs *)

\* The sequences of length at most n of distinct elements of S
RECURSIVE DistinctSeqs(_, _)
DistinctSeqs(S, n) ==
    IF n = 0 THEN {<<>>}
    ELSE LET shorter == DistinctSeqs(S, n - 1)
         IN  shorter \cup
             {Append(s, x) : <<s, x>> \in
                 {p \in shorter \X S : \A i \in 1..Len(p[1]) : p[1][i] # p[2]}}

\* The interface lists that name each of `names` (taken in this order) at
\* most once and hold at most n interfaces, the interface of a name drawn
\* from options[name].
RECURSIVE IfaceLists(_, _, _)
IfaceLists(names, options, n) ==
    IF names = <<>> THEN {<<>>}
    ELSE LET rest == IfaceLists(Tail(names), options, n)
         IN  rest \cup
             {<<i>> \o r : <<i, r>> \in
                 {p \in options[Head(names)] \X rest : Len(p[2]) < n}}

Digit(k) == <<"1", "2", "3", "4", "5", "6", "7", "8", "9">>[k]

Hostname(k) == <<"h", Digit(k)>>

StartVars ==
    /\ pc = "parse"
    /\ hosts = <<>>
    /\ host = None
    /\ local_interfaces = EmptyMap
    /\ snapshot = EmptyMap
    /\ pending = {}
    /\ idx = 1
    /\ hostname_file = None
    /\ no_auto_default = FALSE
    /\ error = None
    /\ runs = 1
    /\ first_dest = None
    /\ first_local_interfaces = None
    /\ interfaces = <<>>
    /\ config = <<>>
    /\ config_dir = <<>>
    /\ entry = 1
    /\ require_mac_addresses = FALSE
    /\ output_dir = EmptyMap
    /\ mapping_file = <<>>

DefaultContents(name) == <<"i", "=">> \o name

\* Inputs of identify_host: up to MaxHosts hosts, each with interfaces eth1
\* and/or eth10 whose MAC is absent, M1 written in upper case, or M2 (on a
\* bond); up to MaxNics local NICs with or without a MAC.
IdentifyOptions(name) ==
    {Interface(name, None, Ethernet), Interface(name, Some(M1U), Ethernet),
     Interface(name, Some(M2), "bond")}

IdentifyHosts ==
    UNION {[1..n -> IfaceLists(<<E1, E10>>, [name \in {E1, E10} |-> IdentifyOptions(name)], MaxIfaces) \ {<<>>}]
              : n \in 1..MaxHosts}

NicNames == <<NicN, NicP, NicQ>>

InitIdentify ==
    /\ StartVars
    /\ \E ifs \in IdentifyHosts :
           hosts_file = [k \in 1..Len(ifs) |-> Host(Hostname(k), ifs[k])]
    /\ \E n \in 0..MaxNics : \E macs \in [1..n -> {None, Some(M1), Some(M2)}] :
           network_interfaces =
               [k \in 1..n |-> NetworkInterface(NicNames[k], macs[k])]
    /\ source = [name \in {E1, E10} |-> DefaultContents(name)]
    /\ dest = EmptyMap
    /\ umask = Umask022

NextIdentify == ParseHosts \/ IdentifyHost

\* identify_host on the parsed hosts of the mapping file
SpecIdentify == InitIdentify /\ [][NextIdentify]_vars

\* Inputs of detect_local_interfaces: one host with up to MaxIfaces of the
\* interfaces eth1, eth10, eth10.5, each Ethernet (MAC M1, M2 or none), a
\* VLAN without MAC or a bond with MAC M1; up to MaxNics local NICs of
\* distinct names n, p, eth1 with MAC M1, M1 in upper case, M2 or none.
ReconcileOptions(name) ==
    {Interface(name, Some(M1), Ethernet), Interface(name, Some(M2), Ethernet),
     Interface(name, None, Ethernet), Interface(name, None, "vlan"),
     Interface(name, Some(M1), "bond")}

NicLists(names, macs) ==
    UNION {{[k \in 1..Len(ns) |-> NetworkInterface(ns[k], ms[k])]
               : ms \in [1..Len(ns) -> macs]}
              : ns \in DistinctSeqs(names, MaxNics)}

InitReconcile ==
    /\ StartVars
    /\ \E ifs \in IfaceLists(<<E1, E10, V10>>, [name \in {E1, E10, V10} |-> ReconcileOptions(name)], MaxIfaces) \ {<<>>} :
           hosts_file = <<Host(Hostname(1), ifs)>>
    /\ network_interfaces \in
           NicLists({NicN, NicP, E1}, {None, Some(M1), Some(M1U), Some(M2)})
    /\ source = [name \in {E1, E10, V10} |-> DefaultContents(name)]
    /\ dest = EmptyMap
    /\ umask = Umask022

NextReconcile ==
    \/ ParseHosts
    \/ IdentifyHost
    \/ SetHostname
    \/ DetectDirect
    \/ DetectPropagate
    \/ Redetect

\* apply up to the end of detect_local_interfaces, and a second call of
\* detect_local_interfaces
SpecReconcile == InitReconcile /\ [][NextReconcile]_vars

\* Inputs of copy_connection_files: one host with up to MaxIfaces of eth1
\* (Ethernet, MAC M1), eth10.5 (VLAN) and bond0 (a bond, or Ethernet with MAC
\* M2 or M1); local NICs n and eth1 with MAC M1; a source directory that holds,
\* for each interface, no file or one of two profiles; a destination
\* directory that may hold older files with mode 0644; umask 022 or 077.
DeployOptions(name) ==
    IF name = E1 THEN {Interface(E1, Some(M1), Ethernet)}
    ELSE IF name = V10 THEN {Interface(V10, None, "vlan")}
    ELSE {Interface(name, None, "bond"), Interface(name, Some(M2), Ethernet),
          Interface(name, Some(M1), Ethernet)}

\* A profile that names its interface twice, and one that does not name it
Profiles(name) ==
    {<<"i", "=">> \o name \o <<";", "p", "=">> \o name \o <<"x">>, <<"t", "=", "x">>}

SourceDirs(names) ==
    UNION {{f \in [S -> UNION {Profiles(n) : n \in S}] : \A n \in S : f[n] \in Profiles(n)}
              : S \in SUBSET names}

OlderFile == [contents |-> <<"o", "l", "d">>, mode |-> Mode644]

InitDeploy ==
    /\ StartVars
    /\ \E ifs \in IfaceLists(<<E1, V10, B0>>, [name \in {E1, V10, B0} |-> DeployOptions(name)], MaxIfaces) \ {<<>>} :
           /\ hosts_file = <<Host(Hostname(1), ifs)>>
           /\ source \in SourceDirs({ifs[i].logical_name : i \in 1..Len(ifs)})
    /\ network_interfaces \in NicLists({NicN, E1}, {Some(M1)})
    /\ \E S \in SUBSET {NicN \o <<".", CONNECTION_FILE_EXT>>,
                         E1 \o <<".", CONNECTION_FILE_EXT>>} :
           dest = [f \in S |-> OlderFile]
    /\ umask \in {Umask022, Umask077}

\* apply without a unified configuration directory, and a second call of
\* copy_connection_files
Next ==
    \/ ParseHosts
    \/ IdentifyHost
    \/ SetHostname
    \/ DetectDirect
    \/ DetectPropagate
    \/ CopyConnectionFile
    \/ DisableWiredConnections
    \/ Redeploy

Spec == InitDeploy /\ [][Next]_vars

\* Inputs of populate_connection_ids: the interfaces eth1 (Ethernet, MAC
\* M1, M2 or none) and/or bond0 (with MAC M1, M2 or none), without connection
\* ids yet; from 1 to MaxProfiles files, the k-th named f<k>, of type
\* ethernet or loopback, with or without an interface name (eth1, bond0), a
\* MAC (M1 in upper case) and an id (c<k>).
AttributeOptions(name) ==
    IF name = E1
    THEN {Interface(E1, Some(M1), Ethernet), Interface(E1, Some(M2), Ethernet),
          Interface(E1, None, Ethernet)}
    ELSE {Interface(name, None, "bond"), Interface(name, Some(M2), "bond"),
          Interface(name, Some(M1), "bond")}

FileName(k) == <<"f", Digit(k)>>
ConnectionId(k) == <<"c", Digit(k)>>

ProfilesAt(k) ==
    {Profile(FileName(k), Some(type), name, mac, id) :
        type \in {<<"ethernet">>, <<"loopback">>},
        name \in {None, Some(E1), Some(B0)},
        mac \in {None, Some(M1U)},
        id \in {None, Some(ConnectionId(k))}}

\* The NetworkConfig whose k-th file is c[k], one of ProfilesAt(k)
NetworkConfig(c) ==
    [k \in 1..Len(c) |->
        [c[k] EXCEPT !.filename = FileName(k),
                     !.id = IF @ = None THEN None ELSE Some(ConnectionId(k))]]

InitAttribute ==
    /\ pc = "populate"
    /\ hosts_file = <<>>
    /\ hosts = <<>>
    /\ network_interfaces = <<>>
    /\ host = None
    /\ local_interfaces = EmptyMap
    /\ snapshot = EmptyMap
    /\ pending = {}
    /\ idx = 1
    /\ source = EmptyMap
    /\ dest = EmptyMap
    /\ umask = Umask022
    /\ hostname_file = None
    /\ no_auto_default = FALSE
    /\ error = None
    /\ runs = 1
    /\ first_dest = None
    /\ first_local_interfaces = None
    /\ interfaces \in IfaceLists(<<E1, B0>>, [name \in {E1, B0} |-> AttributeOptions(name)], MaxIfaces) \ {<<>>}
    /\ \E n \in 1..MaxProfiles :
           \E c \in [1..n -> ProfilesAt(1)] : config = NetworkConfig(c)
    /\ config_dir = <<>>
    /\ entry = 1
    /\ require_mac_addresses = FALSE
    /\ output_dir = EmptyMap
    /\ mapping_file = <<>>

NextAttribute == PopulateConnectionIds \/ ValidateConnectionIds

\* populate_connection_ids and validate_connection_ids on the interfaces
\* extract_interfaces returned
SpecAttribute == InitAttribute /\ [][NextAttribute]_vars

\* Inputs of generate: a config directory that is empty, holds the unified
\* file alone, or holds up to MaxHosts entries h1.yaml, h2.yml, h3, ..., each
\* a directory or a file.  A file describes up to MaxIfaces of the
\* interfaces eth1 (Ethernet, with MAC M1 or none), eth10 (Ethernet without
\* MAC, or a bond) and lo (loopback); nmstate generates one file per
\* interface, named after it, or leaves out the file of the last one.
Lo == <<"l", "o">>

GenerateOptions(name) ==
    IF name = E1
    THEN {Interface(E1, Some(M1), Ethernet), Interface(E1, None, Ethernet)}
    ELSE IF name = E10
    THEN {Interface(E10, None, Ethernet), Interface(E10, None, "bond")}
    ELSE {Interface(name, None, Loopback)}

GeneratedProfile(i) ==
    Profile(i.logical_name \o <<".", CONNECTION_FILE_EXT>>,
            Some(<<i.interface_type>>), Some(i.logical_name), None,
            Some(i.logical_name))

GeneratedConfigs(network_state) ==
    LET all == [k \in 1..Len(network_state) |-> GeneratedProfile(network_state[k])]
    IN  IF all = <<>> THEN {all} ELSE {all, SubSeq(all, 1, Len(all) - 1)}

ConfigFiles ==
    UNION {{[file |-> <<>>, is_dir |-> FALSE, network_state |-> ns, gen_conf |-> c]
               : c \in GeneratedConfigs(ns)}
              : ns \in IfaceLists(<<E1, E10, Lo>>,
                                  [name \in {E1, E10, Lo} |-> GenerateOptions(name)],
                                  MaxIfaces)}

ConfigDirectory ==
    [file |-> <<>>, is_dir |-> TRUE, network_state |-> <<>>, gen_conf |-> <<>>]

EntryName(k) ==
    <<"h", Digit(k)>> \o
        (IF k % 3 = 1 THEN <<".", "yaml">> ELSE IF k % 3 = 2 THEN <<".", "yml">> ELSE <<>>)

\* The directory whose k-th entry is es[k] under the name EntryName(k)
ConfigDir(es) == [k \in 1..Len(es) |-> [es[k] EXCEPT !.file = EntryName(k)]]

InitGenerate ==
    /\ pc = "generate"
    /\ hosts_file = <<>>
    /\ hosts = <<>>
    /\ network_interfaces = <<>>
    /\ host = None
    /\ local_interfaces = EmptyMap
    /\ snapshot = EmptyMap
    /\ pending = {}
    /\ idx = 1
    /\ source = EmptyMap
    /\ dest = EmptyMap
    /\ umask = Umask022
    /\ hostname_file = None
    /\ no_auto_default = FALSE
    /\ error = None
    /\ runs = 1
    /\ first_dest = None
    /\ first_local_interfaces = None
    /\ interfaces = <<>>
    /\ config = <<>>
    /\ \/ config_dir = <<>>
       \/ \E e \in ConfigFiles : config_dir = <<[e EXCEPT !.file = ALL_HOSTS_FILE]>>
       \/ \E n \in 1..MaxHosts :
              \E es \in [1..n -> ConfigFiles \cup {ConfigDirectory}] :
                  config_dir = ConfigDir(es)
    /\ entry = 1
    /\ require_mac_addresses = FALSE
    /\ output_dir = EmptyMap
    /\ mapping_file = <<>>

NextGenerate ==
    \/ Generate
    \/ ValidateInterfaces
    \/ GenConf
    \/ PopulateConnectionIds
    \/ ValidateConnectionIds
    \/ StoreNetworkConfig
    \/ StoreNetworkMapping
    \/ Regenerate

\* generate, and a second call on the same directories
SpecGenerate == InitGenerate /\ [][NextGenerate]_vars


----------------------------------------------------------------------------
(* Claims on identify_host, checked under SpecIdentify *)

Identified == pc \in {"hostname", "failed"}

\* Interface i of host h and local NIC k both have a MAC, and the same one.
SameMac(h, i, k) ==
    /\ Len(hosts[h].interfaces[i].mac_address) = 1
    /\ Len(network_interfaces[k].mac_addr) = 1
    /\ hosts[h].interfaces[i].mac_address[1] = network_interfaces[k].mac_addr[1]

SharesMac(h) ==
    \E i \in 1..Len(hosts[h].interfaces) :
        \E k \in 1..Len(network_interfaces) : SameMac(h, i, k)

\* C1: identify_host returns None if and only if no interface MAC of any
\* host equals the MAC of a local NIC that has one; a NIC without a MAC and
\* an interface without a MAC never make a match.
C1_NoneIffNoSharedMac ==
    Identified => ((host = None) <=> ~ \E h \in 1..Len(hosts) : SharesMac(h))

\* C1 witness: identify_host returned None although an interface without a
\* MAC faces a local NIC without a MAC.
C1_Witness ==
    /\ pc = "failed"
    /\ host = None
    /\ \E h \in 1..Len(hosts) : \E i \in 1..Len(hosts[h].interfaces) :
           hosts[h].interfaces[i].mac_address = None
    /\ \E k \in 1..Len(network_interfaces) : network_interfaces[k].mac_addr = None

\* C2: when several hosts share a MAC with the local NICs, identify_host
\* returns the first of them in the sequence, its hostname and its
\* interfaces as they were given.
C2_FirstMatchingHostUnchanged ==
    pc = "hostname" =>
        \E h \in 1..Len(hosts) :
            /\ host = <<hosts[h]>>
            /\ SharesMac(h)
            /\ \A g \in 1..(h - 1) : ~ SharesMac(g)

\* C2 witness: two hosts share a MAC with the local NICs and the first one
\* was returned.
C2_Witness ==
    /\ pc = "hostname"
    /\ Len(hosts) >= 2
    /\ SharesMac(1) /\ SharesMac(2)
    /\ host = <<hosts[1]>>

----------------------------------------------------------------------------
(* Claims on detect_local_interfaces, checked under SpecReconcile *)

TheHost == host[1]

IfaceIdx == 1..Len(TheHost.interfaces)
NicIdx == 1..Len(network_interfaces)

\* Interface i of the identified host and local NIC k both have a MAC, and
\* the same one.
SameMacAs(i, k) ==
    /\ Len(TheHost.interfaces[i].mac_address) = 1
    /\ Len(network_interfaces[k].mac_addr) = 1
    /\ TheHost.interfaces[i].mac_address[1] = network_interfaces[k].mac_addr[1]

NameOf(i) == TheHost.interfaces[i].logical_name
IsEthernet(i) == TheHost.interfaces[i].interface_type = "ethernet"
Preconfigured(name) == \E j \in IfaceIdx : NameOf(j) = name

\* C3: a local NIC with the MAC and the name of a preconfigured Ethernet
\* interface leaves the returned RenameMap without an entry for that name,
\* whatever other local NICs are present.
C3_NoEntryForSameName ==
    pc = "copy" =>
        \A i \in IfaceIdx : \A k \in NicIdx :
            (IsEthernet(i) /\ SameMacAs(i, k) /\ network_interfaces[k].name = NameOf(i))
                => NameOf(i) \notin DOMAIN local_interfaces

\* The local NICs that the first pass may take for interface i: same MAC, a
\* name that no preconfigured interface has.
Candidates(i) ==
    {k \in NicIdx : SameMacAs(i, k) /\ ~ Preconfigured(network_interfaces[k].name)}

FirstPassDone == pc \in {"propagate", "copy"}

\* C4 as stated: after the first pass every Ethernet interface is mapped to
\* the name of every local NIC with its MAC and another name that is not a
\* preconfigured name; no other interface has an entry.
C4_EveryMatchingNic ==
    FirstPassDone =>
        /\ \A i \in IfaceIdx : \A k \in Candidates(i) :
               (IsEthernet(i) /\ network_interfaces[k].name # NameOf(i)) =>
                   /\ NameOf(i) \in DOMAIN snapshot
                   /\ snapshot[NameOf(i)] = network_interfaces[k].name
        /\ \A i \in IfaceIdx : ~ IsEthernet(i) => NameOf(i) \notin DOMAIN snapshot

\* C4 amended: after the first pass every Ethernet interface whose MAC is
\* the MAC of a local NIC with a name that is not a preconfigured name is
\* mapped to the name of the first such NIC; no other interface has an
\* entry.
C4_FirstMatchingNic ==
    FirstPassDone =>
        /\ \A i \in IfaceIdx :
               (IsEthernet(i) /\ Candidates(i) # {}) =>
                   /\ NameOf(i) \in DOMAIN snapshot
                   /\ \E k \in Candidates(i) :
                          /\ snapshot[NameOf(i)] = network_interfaces[k].name
                          /\ \A j \in Candidates(i) : k <= j
        /\ \A i \in IfaceIdx : ~ IsEthernet(i) => NameOf(i) \notin DOMAIN snapshot

\* C4 witness: two local NICs have the MAC of an Ethernet interface and the
\* first pass took the first; a bond with the MAC of a local NIC got none.
C4_Witness ==
    /\ FirstPassDone
    /\ \E i \in IfaceIdx :
           /\ IsEthernet(i)
           /\ Cardinality(Candidates(i)) = 2
           /\ snapshot[NameOf(i)] = network_interfaces[1].name
    /\ \E i \in IfaceIdx : ~ IsEthernet(i) /\ Candidates(i) # {}

\* Interface j depends on the renamed interface `old`: its name contains
\* `old` and is another name.
DependsOn(j, old) ==
    /\ NameOf(j) # old
    /\ \E a \in 1..Len(NameOf(j)) :
           /\ a + Len(old) - 1 <= Len(NameOf(j))
           /\ \A b \in 1..Len(old) : NameOf(j)[a + b - 1] = old[b]

\* C5 as stated: for every entry (old, new) of the first pass and every
\* interface whose name contains old, the returned map gives that interface
\* its name with old replaced by new.
C5_EveryParent ==
    pc = "copy" =>
        \A old \in DOMAIN snapshot : \A j \in IfaceIdx :
            DependsOn(j, old) =>
                /\ NameOf(j) \in DOMAIN local_interfaces
                /\ local_interfaces[NameOf(j)] = Replace(NameOf(j), old, snapshot[old])

\* C5 amended: every interface whose name contains the name of a renamed
\* interface is given its name with the name of one of the renamed
\* interfaces it contains replaced by the new name of that interface.
C5_SomeParent ==
    pc = "copy" =>
        \A j \in IfaceIdx :
            (\E old \in DOMAIN snapshot : DependsOn(j, old)) =>
                /\ NameOf(j) \in DOMAIN local_interfaces
                /\ \E old \in DOMAIN snapshot :
                       /\ DependsOn(j, old)
                       /\ local_interfaces[NameOf(j)] =
                              Replace(NameOf(j), old, snapshot[old])

\* C5 witness: eth1 was renamed to n, and eth10.5, which contains eth1 and
\* the renamed eth10, was given the name n0.5.
C5_Witness ==
    /\ pc = "copy"
    /\ DOMAIN snapshot = {E1, E10}
    /\ snapshot[E1] = NicN
    /\ V10 \in DOMAIN local_interfaces
    /\ local_interfaces[V10] = <<"n", "0", ".", "5">>

\* Interface i of host h and local NIC k both have a MAC, and the same
\* one when letter case is left aside.
SameMacAnyCase(h, i, k) ==
    LET a == hosts_file[h].interfaces[i].mac_address
        b == network_interfaces[k].mac_addr
    IN  /\ Len(a) = 1
        /\ Len(b) = 1
        /\ Len(a[1]) = Len(b[1])
        /\ \A c \in 1..Len(a[1]) : LowerChar(a[1][c]) = LowerChar(b[1][c])

\* C18: a MAC of the mapping file and a MAC of a local NIC that differ in
\* letter case only are the same MAC for identify_host (a host with such an
\* interface is identified) and for the first pass of
\* detect_local_interfaces (an Ethernet interface is mapped to a NIC with
\* such a MAC and a name that is not a preconfigured name).
C18_MacCaseInsensitive ==
    /\ pc \notin {"parse", "identify"} =>
           ((host # <<>>) <=>
                \E h \in 1..Len(hosts_file) :
                    \E i \in 1..Len(hosts_file[h].interfaces) :
                        \E k \in NicIdx : SameMacAnyCase(h, i, k))
    /\ FirstPassDone =>
           \A i \in IfaceIdx :
               (/\ IsEthernet(i)
                /\ \E k \in NicIdx :
                       /\ SameMacAnyCase(1, i, k)
                       /\ ~ Preconfigured(network_interfaces[k].name))
                   => NameOf(i) \in DOMAIN snapshot

----------------------------------------------------------------------------
(* Claims on copy_connection_files, checked under Spec *)

Extension == <<".", "nmconnection">>

\* The interface the loop of copy_connection_files is at
Current == TheHost.interfaces[idx]

\* A turn of the loop that stored its file
Stored == pc = "copy" /\ pc' \in {"copy", "disable"}

\* C6: each turn of the loop of copy_connection_files writes exactly one
\* file: under <new name>.nmconnection the source profile with every
\* occurrence of the logical name replaced by the new name when the
\* RenameMap has an entry for the interface, else under
\* <logical name>.nmconnection the source profile as it is; the extension
\* follows the whole name, dots included; the loop takes the interfaces in
\* order and ends after the last.
C6_OneFilePerInterface ==
    [][Stored =>
          LET old == Current.logical_name
              renamed == old \in DOMAIN local_interfaces
              file == IF renamed THEN local_interfaces[old] \o Extension
                      ELSE old \o Extension
          IN  /\ DOMAIN dest' = DOMAIN dest \cup {file}
              /\ dest'[file].contents =
                     IF renamed THEN Replace(source[old], old, local_interfaces[old])
                     ELSE source[old]
              /\ \A f \in DOMAIN dest \ {file} : dest'[f] = dest[f]
              /\ idx' = idx + 1
              /\ (pc' = "disable") <=> (idx = Len(TheHost.interfaces))]_vars

\* C6 witness: eth10.5 was deployed as n0.5.nmconnection with both
\* occurrences of its name replaced, and bond0 as bond0.nmconnection with the
\* profile of the source directory.
C6_Witness ==
    /\ pc = "done"
    /\ local_interfaces = (E1 :> NicN @@ V10 :> <<"n", "0", ".", "5">>)
    /\ Len(TheHost.interfaces) = 3
    /\ DOMAIN dest = {<<"n", ".", "nmconnection">>,
                      <<"n", "0", ".", "5", ".", "nmconnection">>,
                      <<"b", "0", ".", "nmconnection">>}
    /\ dest[<<"n", "0", ".", "5", ".", "nmconnection">>].contents =
           <<"i", "=", "n", "0", ".", "5", ";", "p", "=", "n", "0", ".", "5", "x">>
    /\ dest[<<"b", "0", ".", "nmconnection">>].contents = source[B0]
    /\ source[B0] = <<"i", "=", "b", "0", ";", "p", "=", "b", "0", "x">>

\* C7: a second call of copy_connection_files with the same arguments
\* leaves the destination directory with the files and the contents the
\* first call left.
C7_DeployIdempotent ==
    (Deployed /\ runs >= 2) => first_dest = <<dest>>

\* C7 witness: the second call is over; it found the files of the first,
\* one of them written over a file that was there before the first call.
C7_Witness ==
    /\ pc = "done"
    /\ runs = 2
    /\ local_interfaces # EmptyMap
    /\ Cardinality(DOMAIN dest) >= 2
    /\ \E f \in DOMAIN dest : dest[f].mode = Mode644 /\ dest[f].contents # OlderFile.contents

\* The file copy_connection_files stores for interface i
DeployedFile(i) ==
    IF NameOf(i) \in DOMAIN local_interfaces
    THEN local_interfaces[NameOf(i)] \o Extension
    ELSE NameOf(i) \o Extension

\* C8: after copy_connection_files succeeded, every file it wrote has mode
\* 0600, the files it created and the files it wrote over.
C8_WrittenFilesOwnerOnly ==
    pc \in {"disable", "done"} =>
        \A i \in IfaceIdx : dest[DeployedFile(i)].mode = {"ur", "uw"}

----------------------------------------------------------------------------
(* Claims on populate_connection_ids, checked under SpecAttribute *)

AllConnectionIds(ifs) ==
    UNION {{ifs[i].connection_ids[j] : j \in 1..Len(ifs[i].connection_ids)}
              : i \in 1..Len(ifs)}

\* C9: the turn of the loop for a profile of type loopback adds no
\* connection id to any interface and ends with no error, whatever else the
\* profile holds.
C9_LoopbackSkipped ==
    [][(pc = "populate" /\ config[idx].connection_type = <<<<"loopback">>>>) =>
          /\ interfaces' = interfaces
          /\ error' = <<>>
          /\ pc' # "failed"
          /\ idx' = idx + 1]_vars

\* C9 witness: a loopback profile with no interface name, no MAC and no id
\* was passed, with no error, and a later profile was attributed.
C9_Witness ==
    /\ pc = "validate_ids"
    /\ Len(config) = 2
    /\ config[1] = Profile(FileName(1), <<<<"loopback">>>>, <<>>, <<>>, <<>>)
    /\ error = <<>>
    /\ AllConnectionIds(interfaces) = {ConnectionId(2)}

\* C10: the turn of the loop for a profile that is not a loopback and has
\* neither an interface name nor a MAC ends populate_connection_ids with the
\* error "No identifier found in connection file" and the name of its file,
\* and attributes no connection id of the profile.
C10_UnidentifiableProfileFails ==
    [][(/\ pc = "populate"
        /\ config[idx].connection_type # <<<<"loopback">>>>
        /\ config[idx].interface_name = <<>>
        /\ config[idx].mac_address = <<>>) =>
          /\ pc' = "failed"
          /\ error' = <<<<"No identifier found in connection file",
                          config[idx].filename>>>>
          /\ interfaces' = interfaces
          /\ ConnectionId(idx) \notin AllConnectionIds(interfaces')]_vars

\* C10 witness: the second profile, with an id but no interface name and no
\* MAC, ended the call with the error that names f2, after the first
\* profile was attributed.
C10_Witness ==
    /\ pc = "failed"
    /\ idx = 2
    /\ Len(config) = 2
    /\ config[2] = Profile(FileName(2), <<<<"ethernet">>>>, <<>>, <<>>, <<ConnectionId(2)>>)
    /\ error = <<<<"No identifier found in connection file", <<"f", "2">>>>>>
    /\ AllConnectionIds(interfaces) = {ConnectionId(1)}

\* The profile the loop of populate_connection_ids is at
CurrentProfile == config[idx]

\* A turn of the loop for a profile that is not a loopback
Attributing == pc = "populate" /\ CurrentProfile.connection_type # <<<<"loopback">>>>

\* The interfaces whose MAC is the MAC of the profile, letter case aside
MacCandidates ==
    {i \in 1..Len(interfaces) :
        /\ Len(CurrentProfile.mac_address) = 1
        /\ Len(interfaces[i].mac_address) = 1
        /\ Len(interfaces[i].mac_address[1]) = Len(CurrentProfile.mac_address[1])
        /\ \A c \in 1..Len(interfaces[i].mac_address[1]) :
               LowerChar(interfaces[i].mac_address[1][c]) =
                   LowerChar(CurrentProfile.mac_address[1][c])}

\* The interfaces whose logical name is the interface name of the profile
NameCandidates ==
    {i \in 1..Len(interfaces) :
        /\ Len(CurrentProfile.interface_name) = 1
        /\ interfaces[i].logical_name = CurrentProfile.interface_name[1]}

\* The turn appended the id of the profile to interface k and changed
\* nothing else of the list
AttributedTo(k) ==
    /\ Len(interfaces') = Len(interfaces)
    /\ interfaces'[k].connection_ids =
           interfaces[k].connection_ids \o CurrentProfile.id
    /\ interfaces'[k].logical_name = interfaces[k].logical_name
    /\ interfaces'[k].mac_address = interfaces[k].mac_address
    /\ \A j \in 1..Len(interfaces) : j # k => interfaces'[j] = interfaces[j]
    /\ pc' # "failed"

\* C11: the turn of the loop for a profile with a MAC and an id appends the
\* id to an interface that has this MAC (letter case aside) whenever the
\* list holds one, also when the interface name of the profile is the name
\* of another interface; when no interface has the MAC, the id goes to the
\* interface named by the profile.
C11_MacFirstNameFallback ==
    [][(/\ Attributing
        /\ CurrentProfile.mac_address # <<>>
        /\ CurrentProfile.id # <<>>) =>
          /\ MacCandidates # {} => \E k \in MacCandidates : AttributedTo(k)
          /\ (MacCandidates = {} /\ NameCandidates # {}) =>
                 \E k \in NameCandidates : AttributedTo(k)]_vars

\* C12 as stated: the turn of the loop for a profile with a MAC or an
\* interface name, none of which is the MAC or the name of an interface,
\* ends populate_connection_ids with the error "No matching interface found
\* for connection file" and the name of the file.
C12_UnmatchedProfileFails ==
    [][(/\ Attributing
        /\ CurrentProfile.mac_address # <<>> \/ CurrentProfile.interface_name # <<>>
        /\ MacCandidates = {}
        /\ NameCandidates = {}) =>
          /\ pc' = "failed"
          /\ error' = <<<<"No matching interface found for connection file",
                          CurrentProfile.filename>>>>
          /\ interfaces' = interfaces]_vars

\* C12 amended: the same for a profile that declares a connection id; the
\* call always ends with an error and attributes nothing, and the error is
\* the one of the missing id when the profile has none.
C12_UnmatchedProfileWithIdFails ==
    [][(/\ Attributing
        /\ CurrentProfile.mac_address # <<>> \/ CurrentProfile.interface_name # <<>>
        /\ MacCandidates = {}
        /\ NameCandidates = {}) =>
          /\ pc' = "failed"
          /\ interfaces' = interfaces
          /\ error' =
                 IF CurrentProfile.id # <<>>
                 THEN <<<<"No matching interface found for connection file",
                         CurrentProfile.filename>>>>
                 ELSE <<<<"No connection id found in connection file",
                         CurrentProfile.filename>>>>]_vars

\* C12 witness: the second profile, with an id and the name bond0, met a
\* list without bond0 and ended the call with the error that names f2,
\* after the first profile was attributed.
C12_Witness ==
    /\ pc = "failed"
    /\ idx = 2
    /\ Len(config) = 2
    /\ config[2] = Profile(FileName(2), <<<<"ethernet">>>>, <<B0>>, <<>>, <<ConnectionId(2)>>)
    /\ \A i \in 1..Len(interfaces) : interfaces[i].logical_name # B0
    /\ error = <<<<"No matching interface found for connection file", <<"f", "2">>>>>>
    /\ AllConnectionIds(interfaces) = {ConnectionId(1)}

\* C13: the turn of the loop for a profile with an id whose MAC or interface
\* name is the MAC or the name of more than one interface ends
\* populate_connection_ids with an error and attributes the profile to none
\* of them.
C13_AmbiguousProfileFails ==
    [][(/\ Attributing
        /\ CurrentProfile.id # <<>>
        /\ Cardinality(MacCandidates \cup NameCandidates) > 1) =>
          /\ pc' = "failed"
          /\ error' # <<>>
          /\ interfaces' = interfaces]_vars

----------------------------------------------------------------------------
(* Claims on validate_connection_ids, checked under SpecAttribute *)

\* The interfaces that attribution left without a connection id
WithoutIds == {i \in 1..Len(interfaces) : interfaces[i].connection_ids = <<>>}

\* The logical names of the interfaces of S, by increasing position,
\* separated by a comma and a space
RECURSIVE ListedInterfaces(_)
ListedInterfaces(S) ==
    IF S = {} THEN <<>>
    ELSE LET first == CHOOSE i \in S : \A j \in S : i <= j
         IN  IF S = {first} THEN interfaces[first].logical_name
             ELSE interfaces[first].logical_name \o <<",", " ">>
                      \o ListedInterfaces(S \ {first})

\* C14: after attribution, generate_config goes on to its Ok only if every
\* interface, of whatever type, has a connection id; otherwise it ends with
\* the one error of validate_connection_ids, which lists the names of the
\* interfaces without a connection id, all of them and no other, in the
\* order of the interfaces.
C14_EveryInterfaceHasConnectionId ==
    [][pc = "validate_ids" =>
          IF WithoutIds = {}
          THEN pc' = "store_config" /\ error' = <<>>
          ELSE /\ pc' = "failed"
               /\ error' = <<<<"Detected interfaces without connection files",
                               ListedInterfaces(WithoutIds)>>>>]_vars

\* C14 witness: the only profile was attributed to eth1, and the call ended
\* with the error that lists bond0, a bond, and not eth1.
C14_Witness ==
    /\ pc = "failed"
    /\ Len(interfaces) = 2
    /\ interfaces[1].connection_ids = <<ConnectionId(1)>>
    /\ interfaces[2].interface_type = "bond"
    /\ error = <<<<"Detected interfaces without connection files", <<"b", "0">>>>>>

----------------------------------------------------------------------------
(* Claims on generate, checked under SpecGenerate *)

\* generate is about to call generate_config on a file of the directory
Validating == pc = "entry" /\ ~ config_dir[entry].is_dir

\* The interfaces of the network state of the file, by position
StateIdx == 1..Len(config_dir[entry].network_state)

EthernetIdx ==
    {k \in StateIdx : config_dir[entry].network_state[k].interface_type = "ethernet"}

\* The Ethernet interfaces of the file that have no MAC
MissingMac ==
    {k \in EthernetIdx : config_dir[entry].network_state[k].mac_address = <<>>}

\* C15: in both modes, a network state without Ethernet interface ends
\* generate_config with the error "No Ethernet interfaces were provided",
\* before a connection file is generated, attributed or stored.
C15_NoEthernetRejected ==
    [][(Validating /\ EthernetIdx = {}) =>
          /\ pc' = "failed"
          /\ error' = <<<<"No Ethernet interfaces were provided">>>>
          /\ config = <<>> /\ config' = <<>>
          /\ \A i \in 1..Len(interfaces') : interfaces'[i].connection_ids = <<>>
          /\ output_dir' = output_dir
          /\ mapping_file' = mapping_file]_vars

\* C15 witness: the unified file, generated in non-strict mode, describes a
\* bond and no Ethernet interface, and generate ended with the error.
C15_Witness ==
    /\ pc = "failed"
    /\ ~ require_mac_addresses
    /\ Len(interfaces) = 1
    /\ interfaces[1].interface_type = "bond"
    /\ error = <<<<"No Ethernet interfaces were provided">>>>
    /\ output_dir = EmptyMap

\* The logical names of the interfaces S of the network state of the file,
\* by increasing position, separated by a comma and a space
RECURSIVE ListedOfState(_)
ListedOfState(S) ==
    IF S = {} THEN <<>>
    ELSE LET first == CHOOSE i \in S : \A j \in S : i <= j
             name == config_dir[entry].network_state[first].logical_name
         IN  IF S = {first} THEN name
             ELSE name \o <<",", " ">> \o ListedOfState(S \ {first})

MissingMacError ==
    <<<<"Detected Ethernet interfaces without a MAC address",
        ListedOfState(MissingMac)>>>>

\* C16 as stated: in strict mode validate_interfaces fails if and only if
\* an Ethernet interface has no MAC, with the error that lists these
\* interfaces in order; in non-strict mode the same list is accepted.
C16_StrictFailsIffMissingMac ==
    [][Validating =>
          IF require_mac_addresses
          THEN /\ (pc' = "failed") <=> (MissingMac # {})
               /\ MissingMac # {} => error' = MissingMacError
          ELSE MissingMac # {} => (pc' = "gen_conf" /\ error' = <<>>)]_vars

\* C16 amended: in strict mode validate_interfaces fails if and only if the
\* list has no Ethernet interface or an Ethernet interface has no MAC; in
\* the second case the error lists these Ethernet interfaces, all of them
\* and no other interface, in order; in non-strict mode the same list is
\* accepted.
C16_StrictFailsOnMissingMac ==
    [][Validating =>
          IF require_mac_addresses
          THEN /\ (pc' = "failed") <=> (EthernetIdx = {} \/ MissingMac # {})
               /\ (error' = MissingMacError) <=> (MissingMac # {})
          ELSE MissingMac # {} => (pc' = "gen_conf" /\ error' = <<>>)]_vars

\* C16 witness: in strict mode, eth1 with a MAC, eth10 an Ethernet interface
\* without one: the error lists eth10 alone.
C16_Witness ==
    /\ pc = "failed"
    /\ require_mac_addresses
    /\ Len(interfaces) = 2
    /\ interfaces[1].mac_address # <<>>
    /\ interfaces[2].interface_type = "ethernet"
    /\ error = <<<<"Detected Ethernet interfaces without a MAC address",
                   <<"e", "1", "0">>>>>>

\* C17: store_network_mapping adds one Host record, the host of the entry
\* with its attributed interfaces, at the end of the mapping document and
\* leaves the records before it as they were; no other step of generate
\* changes the document, within a run or from one run to the next.
C17_MappingAppended ==
    [][IF pc = "store_mapping"
       THEN /\ Len(mapping_file') = Len(mapping_file) + 1
            /\ \A k \in 1..Len(mapping_file) : mapping_file'[k] = mapping_file[k]
            /\ mapping_file'[Len(mapping_file')] =
                   [hostname |-> <<"h", Digit(entry)>>, interfaces |-> interfaces]
       ELSE mapping_file' = mapping_file]_vars

\* C17 witness: two runs over a directory of two hosts left four records,
\* in the order of the calls.
C17_Witness ==
    /\ pc = "generated"
    /\ runs = 2
    /\ Len(mapping_file) = 4
    /\ mapping_file[1].hostname = <<"h", "1">>
    /\ mapping_file[2].hostname = <<"h", "2">>
    /\ mapping_file[3] = mapping_file[1]
    /\ mapping_file[4] = mapping_file[2]
    /\ mapping_file[2].interfaces[1].connection_ids # <<>>

----------------------------------------------------------------------------
(* Claims on apply as a whole, checked under Spec *)

\* C19: when no host shares a MAC with the local NICs, apply ends with the
\* error "None of the preconfigured hosts match local NICs": /etc/hostname
\* is not written, the destination directory holds what it held before, and
\* disable_wired_connections has not run.
C19_NoHostNoEffect ==
    (pc \notin {"parse", "identify"} /\ ~ \E h \in 1..Len(hosts) : SharesMac(h)) =>
        /\ pc = "failed"
        /\ error = <<<<"None of the preconfigured hosts match local NICs">>>>
        /\ hostname_file = <<>>
        /\ \A f \in DOMAIN dest :
               dest[f] = [contents |-> <<"o", "l", "d">>,
                          mode |-> {"ur", "uw", "gr", "or"}]
        /\ no_auto_default = FALSE

\* C19 witness: apply failed on a machine with a NIC and older files in the
\* destination directory, for a host whose interfaces have other MACs.
C19_Witness ==
    /\ pc = "failed"
    /\ error = <<<<"None of the preconfigured hosts match local NICs">>>>
    /\ Len(network_interfaces) >= 1
    /\ Len(hosts[1].interfaces) >= 2
    /\ Cardinality(DOMAIN dest) = 2

----------------------------------------------------------------------------
(* Claim on the second pass of detect_local_interfaces, checked under
   SpecReconcile *)

\* C20: the second pass visits the entries of the first pass, kept apart
\* from the map it writes: a turn takes a (key, value) pair of the first
\* pass, gives every interface whose name contains key (and is not key) its
\* name with key replaced by value, and changes no other entry; so every
\* entry of the map is an entry of the first pass or one substitution of a
\* pair of the first pass in a logical name.
C20_OneHopFromFirstPass ==
    /\ [][pc = "detect" => snapshot' = local_interfaces']_vars
    /\ [][pc = "propagate" =>
            /\ snapshot' = snapshot
            /\ pending \subseteq DOMAIN snapshot
            /\ \E key \in pending :
                   /\ pending' = pending \ {key}
                   /\ DOMAIN local_interfaces' =
                          DOMAIN local_interfaces
                              \cup {NameOf(j) : j \in {i \in IfaceIdx : DependsOn(i, key)}}
                   /\ \A j \in IfaceIdx :
                          DependsOn(j, key) =>
                              local_interfaces'[NameOf(j)] =
                                  Replace(NameOf(j), key, snapshot[key])
                   /\ \A name \in DOMAIN local_interfaces :
                          (~ \E j \in IfaceIdx : NameOf(j) = name /\ DependsOn(j, key))
                              => local_interfaces'[name] = local_interfaces[name]]_vars
    /\ [](pc \in {"propagate", "copy"} =>
            \A name \in DOMAIN local_interfaces :
                \/ name \in DOMAIN snapshot /\ local_interfaces[name] = snapshot[name]
                \/ \E j \in IfaceIdx : \E key \in DOMAIN snapshot :
                       /\ NameOf(j) = name
                       /\ DependsOn(j, key)
                       /\ local_interfaces[name] = Replace(name, key, snapshot[key]))

\* C20 witness: eth1 -> n and eth10 -> p from the first pass; the second
\* pass gave eth10 the name n0, and then eth10.5 the name p.5, from the pair
\* (eth10, p) of the first pass and not from the entry eth10 -> n0.
C20_Witness ==
    /\ pc = "copy"
    /\ snapshot = (E1 :> NicN @@ E10 :> NicP)
    /\ local_interfaces[E10] = <<"n", "0">>
    /\ V10 \in DOMAIN local_interfaces
    /\ local_interfaces[V10] = <<"p", ".", "5">>

\* Interface i of the identified host has no mac_address.
WithoutMac(i) == TheHost.interfaces[i].mac_address = None

\* C21: an interface without mac_address is never the source of a direct
\* rename: the first pass records no entry under its name, whatever the
\* local NICs are, those without MAC address included; in the returned map
\* an entry under its name comes from the propagation of a renamed parent.
C21_NoDirectRenameWithoutMac ==
    /\ FirstPassDone =>
           \A i \in IfaceIdx : WithoutMac(i) => NameOf(i) \notin DOMAIN snapshot
    /\ pc = "copy" =>
           \A i \in IfaceIdx :
               (WithoutMac(i) /\ NameOf(i) \in DOMAIN local_interfaces) =>
                   \E key \in DOMAIN snapshot :
                       /\ DependsOn(i, key)
                       /\ local_interfaces[NameOf(i)] =
                              Replace(NameOf(i), key, snapshot[key])

\* C22: the second pass replaces no entry of the first pass: every
\* interface the first pass mapped to a local NIC name is mapped to that
\* name in the returned map, also when its name contains the name of another
\* renamed interface.
C22_FirstPassEntriesKept ==
    pc = "copy" =>
        \A name \in DOMAIN snapshot : local_interfaces[name] = snapshot[name]

\* C23: detect_local_interfaces is deterministic: a second call with the
\* same host and the same local NICs returns the map the first call
\* returned, whatever order the intermediate hash map is iterated in, also
\* when the name of an interface contains the names of two renamed
\* interfaces.
C23_SameMapOnEveryRun ==
    (pc = "copy" /\ first_local_interfaces # None) =>
        local_interfaces = Unwrap(first_local_interfaces)

----------------------------------------------------------------------------
(* Claim on the whole of apply, checked under Spec *)

\* The logical names of the identified host are pairwise distinct.
DistinctLogicalNames ==
    \A i \in IfaceIdx : \A j \in IfaceIdx : NameOf(i) = NameOf(j) => i = j

\* C24: for a host with pairwise distinct logical names, once
\* copy_connection_files has succeeded the interfaces are deployed to
\* pairwise distinct files of the destination directory: no two entries of
\* the RenameMap lead to the same file name, and no renamed name is the name
\* of an interface that keeps its own.
C24_OneFilePerInterface ==
    (pc \in {"disable", "done"} /\ DistinctLogicalNames) =>
        \A i \in IfaceIdx : \A j \in IfaceIdx :
            DeployedFile(i) = DeployedFile(j) => i = j

====
